---- MODULE Spec2Model ----
(***************************************************************************)
(* A model of topngx's command pipeline (src/src/main.rs): main dispatches *)
(* a subcommand, run selects the input, compiles the format, generates the *)
(* processor, parse_input turns every matching line into a record, and    *)
(* the processor accumulates the records and reports the queries.         *)
(*                                                                         *)
(* Texts are sequences of one-character strings, so that str::parse is     *)
(* modelled character by character.  A u32 is kept as two 16-bit limbs    *)
(* <<hi, lo>> (value hi * 65536 + lo): the model checker's integers are    *)
(* narrower than 2^32.                                                     *)
(***************************************************************************)
EXTENDS Integers, Sequences, FiniteSets, TLC

VARIABLES
    pc,          \* where the run is: the next step of main, run or parse_input
    opts,        \* Options: access_log, format, limit, no_follow
    sub,         \* the subcommand main dispatches
    args,        \* the subcommand's field list (Fields.fields)
    access_log,  \* run's access_log, once selected
    consumed,    \* the lines input.lines() has yielded, in order
    eof,         \* input.lines() has yielded its end
    pattern,     \* the compiled pattern's capture groups
    fields,      \* processor.fields
    queries,     \* the processor's queries
    records,     \* parse_input's records
    relation,    \* the processor's rows
    calls,       \* the calls of process (with its records) and report, in order
    err,         \* the error the run returned, "" for none
    results      \* the result rows of each reported query

vars == <<pc, opts, sub, args, access_log, consumed, eof, pattern, fields,
          queries, records, relation, calls, err, results>>

(***************************************************************************)
(* Bounds of the model.                                                    *)
(***************************************************************************)
MaxLines == 3
MaxFields == 2
MaxLimit == 2
MaxTextLen == 3

(***************************************************************************)
(* Constants of the program.                                               *)
(***************************************************************************)
STDIN == "STDIN"
STATUS_TYPE == "status_type"
BYTES_SENT == "bytes_sent"
REQUEST_PATH == "request_path"

U16Max == 65535
LimbBase == 65536
StatusDivisor == 100

(***************************************************************************)
(* Option<T>: None, or Some(v).                                            *)
(***************************************************************************)
None == [some |-> FALSE, str |-> <<>>]
Some(s) == [some |-> TRUE, str |-> s]

(***************************************************************************)
(* Typed record values (Box<dyn ToSql>): a u16, a u32 or a String.         *)
(***************************************************************************)
U16Val(n) == [type |-> "u16", n |-> n]
U32Val(hi, lo) == [type |-> "u32", hi |-> hi, lo |-> lo]
TextVal(s) == [type |-> "text", s |-> s]

(***************************************************************************)
(* str::parse::<u16> and str::parse::<u32> (core::num, radix 10): an empty *)
(* text is an error; one leading "+" is dropped (a "-" is not, for an      *)
(* unsigned type, and then is no digit); a lone sign is an error; every     *)
(* other character must be a decimal digit; the accumulation is            *)
(* checked_mul(10) then checked_add(digit), an overflow being an error.    *)
(***************************************************************************)
Digits == <<"0", "1", "2", "3", "4", "5", "6", "7", "8", "9">>
IsDigit(ch) == \E d \in 1..10 : Digits[d] = ch
DigitValue(ch) == (CHOOSE d \in 1..10 : Digits[d] = ch) - 1

ParseErr == [ok |-> FALSE, val |-> 0, hi |-> 0, lo |-> 0]

RECURSIVE ParseDigitsU16(_, _, _)
ParseDigitsU16(s, i, acc) ==
    IF i > Len(s) THEN [ok |-> TRUE, val |-> acc, hi |-> 0, lo |-> acc]
    ELSE IF ~IsDigit(s[i]) THEN ParseErr
    ELSE LET n == acc * 10 + DigitValue(s[i])
         IN  IF n > U16Max THEN ParseErr ELSE ParseDigitsU16(s, i + 1, n)

RECURSIVE ParseDigitsU32(_, _, _, _)
ParseDigitsU32(s, i, hi, lo) ==
    IF i > Len(s) THEN [ok |-> TRUE, val |-> 0, hi |-> hi, lo |-> lo]
    ELSE IF ~IsDigit(s[i]) THEN ParseErr
    ELSE LET t == lo * 10 + DigitValue(s[i])
             h == hi * 10 + (t \div LimbBase)
         IN  IF h >= LimbBase THEN ParseErr
             ELSE ParseDigitsU32(s, i + 1, h, t % LimbBase)

FirstDigit(s) == IF s[1] = "+" THEN 2 ELSE 1

ParseU16(s) ==
    IF s = <<>> THEN ParseErr
    ELSE IF FirstDigit(s) > Len(s) THEN ParseErr
    ELSE ParseDigitsU16(s, FirstDigit(s), 0)

ParseU32(s) ==
    IF s = <<>> THEN ParseErr
    ELSE IF FirstDigit(s) > Len(s) THEN ParseErr
    ELSE ParseDigitsU32(s, FirstDigit(s), 0, 0)

(***************************************************************************)
(* regex::Captures: a function from the pattern's group names to the       *)
(* Option of the text the group matched.  name(g) is None for a group the  *)
(* pattern does not define or that took no part in the match.              *)
(***************************************************************************)
Name(c, g) == IF g \in DOMAIN c THEN c[g] ELSE None
MapOrEmpty(m) == IF m.some THEN m.str ELSE <<>>

(***************************************************************************)
(* The body of parse_input's loop over processor.fields: one entry         *)
(* (":<field>", value) per field.                                          *)
(***************************************************************************)
\* Mutants: the status read from the capture named like the field; the status
\* divided by 10.
StatusTypeOfField(c) ==
    LET status == MapOrEmpty(Name(c, STATUS_TYPE))
        parsed == ParseU16(status)
    IN  U16Val((IF parsed.ok THEN parsed.val ELSE 0) \div StatusDivisor)

StatusTypeOverTen(c) ==
    LET status == MapOrEmpty(Name(c, "status"))
        parsed == ParseU16(status)
    IN  U16Val((IF parsed.ok THEN parsed.val ELSE 0) \div 10)

StatusType(c) ==
    LET status == MapOrEmpty(Name(c, "status"))
        parsed == ParseU16(status)
    IN  U16Val((IF parsed.ok THEN parsed.val ELSE 0) \div StatusDivisor)

\* Mutant: the bytes parsed as a u16.
BytesSentU16(c) ==
    LET bytes_sent == MapOrEmpty(Name(c, "body_bytes_sent"))
        parsed == ParseU16(bytes_sent)
    IN  IF parsed.ok THEN U32Val(parsed.hi, parsed.lo) ELSE U32Val(0, 0)

BytesSent(c) ==
    LET bytes_sent == MapOrEmpty(Name(c, "body_bytes_sent"))
        parsed == ParseU32(bytes_sent)
    IN  IF parsed.ok THEN U32Val(parsed.hi, parsed.lo) ELSE U32Val(0, 0)

\* Mutant: an empty request_uri counts as absent.
RequestPathNonEmptyUri(c) ==
    IF Name(c, "request_uri").some /\ Name(c, "request_uri").str # <<>>
    THEN TextVal(Name(c, "request_uri").str)
    ELSE TextVal(MapOrEmpty(Name(c, "request")))

RequestPath(c) ==
    IF Name(c, "request_uri").some
    THEN TextVal(Name(c, "request_uri").str)
    ELSE TextVal(MapOrEmpty(Name(c, "request")))

OtherField(c, field) == TextVal(MapOrEmpty(Name(c, field)))

FieldValue(c, field) ==
    IF field = STATUS_TYPE THEN StatusType(c)
    ELSE IF field = BYTES_SENT THEN BytesSent(c)
    ELSE IF field = REQUEST_PATH THEN RequestPath(c)
    ELSE OtherField(c, field)

\* Mutant: the key without its colon.
KeyNoColon(field) == field

Key(field) == ":" \o field

RECURSIVE PushFields(_, _, _, _)
PushFields(c, fs, i, record) ==
    IF i > Len(fs) THEN record
    ELSE PushFields(c, fs, i + 1,
                    Append(record, <<Key(fs[i]), FieldValue(c, fs[i])>>))

BuildRecord(c, fs) == PushFields(c, fs, 1, <<>>)

(***************************************************************************)
(* The input: what input.lines() yields.  A line is an I/O error, a text   *)
(* the pattern does not match, or a text it matches with captures caps.    *)
(***************************************************************************)
NoCaps == [g \in {} |-> None]
IoErrorLine == [kind |-> "io_error", caps |-> NoCaps]
NoMatchLine == [kind |-> "no_match", caps |-> NoCaps]
MatchLine(c) == [kind |-> "match", caps |-> c]

(***************************************************************************)
(* top_subcommand's and print_subcommand's queries, kept as the clauses of *)
(* the SQL text they format.  limit -1: the text has no LIMIT clause.      *)
(***************************************************************************)
CountColumn == "COUNT(1) AS count"

TopQuery(f, limit) ==
    [select |-> <<f, CountColumn>>, group_by |-> <<f>>,
     order_by |-> "COUNT DESC", limit |-> limit]

RECURSIVE TopQueriesFrom(_, _, _, _)
TopQueriesFrom(fs, limit, i, qs) ==
    IF i > Len(fs) THEN qs
    ELSE TopQueriesFrom(fs, limit, i + 1, Append(qs, TopQuery(fs[i], limit)))

\* Mutant: every query on the first field.
TopQueriesFirstField(fs, limit) == [i \in 1..Len(fs) |-> TopQuery(fs[1], limit)]

TopQueries(fs, limit) == TopQueriesFrom(fs, limit, 1, <<>>)

PrintQueries(fs) ==
    << [select |-> fs, group_by |-> fs, order_by |-> "", limit |-> -1] >>

(***************************************************************************)
(* nginx::format_to_pattern: the capture groups of the pattern a format    *)
(* compiles to, or a FormatError.  A format is the preset "combined", or a *)
(* template, kept as the sequence of its variables (the literal text       *)
(* between them is not modelled) and whether it is well formed (it is not  *)
(* with an unterminated variable token).                                   *)
(***************************************************************************)
CombinedFormat == [name |-> "combined", vars |-> <<>>, wellformed |-> TRUE]
Template(vs) == [name |-> "template", vars |-> vs, wellformed |-> TRUE]
BadTemplate == [name |-> "template", vars |-> <<>>, wellformed |-> FALSE]

CombinedGroups ==
    {"remote_addr", "remote_user", "time_local", "request", "status",
     "body_bytes_sent", "http_referer", "http_user_agent"}

FormatToPatternResult(format) ==
    IF format.name = "combined"
    THEN [ok |-> TRUE, groups |-> CombinedGroups]
    ELSE IF format.wellformed
    THEN [ok |-> TRUE, groups |-> {format.vars[i] : i \in 1..Len(format.vars)}]
    ELSE [ok |-> FALSE, groups |-> {}]

(***************************************************************************)
(* processor::generate_processor: a FieldError when a requested field is   *)
(* neither a registered variable nor a reserved derived name; otherwise    *)
(* the processor holds the requested fields and queries.                   *)
(***************************************************************************)
ReservedFields == {STATUS_TYPE, BYTES_SENT, REQUEST_PATH}
KnownVariables == CombinedGroups \cup {"request_uri"}

GenerateProcessorResult(fs, qs) ==
    IF \A i \in 1..Len(fs) : fs[i] \in KnownVariables \cup ReservedFields
    THEN [ok |-> TRUE, fields |-> fs, queries |-> qs]
    ELSE [ok |-> FALSE, fields |-> <<>>, queries |-> <<>>]

(***************************************************************************)
(* Processor::report's execution of one query on the relation: the rows    *)
(* are grouped by the GROUP BY columns (groups in the order of their first *)
(* row), counted, ordered by count descending when the query says so (the  *)
(* order of equal counts kept), cut to LIMIT, and projected on SELECT.     *)
(***************************************************************************)
Column(row, f) ==
    row[CHOOSE j \in 1..Len(row) :
            row[j][1] = Key(f) /\ \A k \in 1..(j - 1) : row[k][1] # Key(f)][2]

GroupKey(row, gb) == [i \in 1..Len(gb) |-> Column(row, gb[i])]

RECURSIVE GroupKeys(_, _, _, _)
GroupKeys(rel, gb, i, keys) ==
    IF i > Len(rel) THEN keys
    ELSE IF \E k \in 1..Len(keys) : keys[k] = GroupKey(rel[i], gb)
         THEN GroupKeys(rel, gb, i + 1, keys)
         ELSE GroupKeys(rel, gb, i + 1, Append(keys, GroupKey(rel[i], gb)))

CountRows(rel, gb, key) ==
    Cardinality({i \in 1..Len(rel) : GroupKey(rel[i], gb) = key})

Groups(rel, gb) ==
    LET keys == GroupKeys(rel, gb, 1, <<>>)
    IN  [k \in 1..Len(keys) |->
            [key |-> keys[k], count |-> CountRows(rel, gb, keys[k])]]

RemoveAt(s, m) == SubSeq(s, 1, m - 1) \o SubSeq(s, m + 1, Len(s))

RECURSIVE OrderByCountDesc(_)
OrderByCountDesc(gs) ==
    IF gs = <<>> THEN <<>>
    ELSE LET m == CHOOSE j \in 1..Len(gs) :
                      /\ \A k \in 1..Len(gs) : gs[k].count <= gs[j].count
                      /\ \A k \in 1..(j - 1) : gs[k].count < gs[j].count
         IN  <<gs[m]>> \o OrderByCountDesc(RemoveAt(gs, m))

Limit(rows, n) ==
    IF n < 0 \/ n >= Len(rows) THEN rows ELSE SubSeq(rows, 1, n)

Project(g, q) ==
    [i \in 1..Len(q.select) |->
        IF q.select[i] = CountColumn THEN g.count
        ELSE g.key[CHOOSE j \in 1..Len(q.group_by) :
                       q.group_by[j] = q.select[i]]]

QueryValid(q, fs) ==
    /\ q.select # <<>>
    /\ \A i \in 1..Len(q.group_by) : \E j \in 1..Len(fs) : fs[j] = q.group_by[i]

ExecQuery(q, rel) ==
    LET gs == Groups(rel, q.group_by)
        ordered == IF q.order_by = "COUNT DESC" THEN OrderByCountDesc(gs) ELSE gs
        kept == Limit(ordered, q.limit)
    IN  [k \in 1..Len(kept) |-> Project(kept[k], q)]

(***************************************************************************)
(* The inputs of the model.                                                *)
(***************************************************************************)
SeqsUpTo(S, n) == UNION {[1..k -> S] : k \in 0..n}

NoAccessLog == [some |-> FALSE, str |-> ""]
AccessLogs == {NoAccessLog, Some(STDIN), Some("access.log")}
Formats == {CombinedFormat, BadTemplate}
Options ==
    [access_log : AccessLogs, format : Formats, limit : 0..MaxLimit,
     no_follow : BOOLEAN]

CapsWithStatus(status) ==
    [g \in CombinedGroups |->
        IF g = "status" THEN Some(status)
        ELSE IF g = "request" THEN Some(<<"G", "E", "T", " ", "/", "a">>)
        ELSE IF g = "body_bytes_sent" THEN Some(<<"1", "0">>)
        ELSE Some(<<"-">>)]

Lines ==
    {IoErrorLine, NoMatchLine,
     MatchLine(CapsWithStatus(<<"2", "0", "0">>)),
     MatchLine(CapsWithStatus(<<"4", "0", "4">>))}

FieldNames == {STATUS_TYPE, REQUEST_PATH, "nonesuch"}

Init ==
    /\ pc = "main"
    /\ opts \in Options
    /\ sub \in {"top", "print"}
    /\ args \in SeqsUpTo(FieldNames, MaxFields)
    /\ access_log = ""
    /\ consumed = <<>>
    /\ eof = FALSE
    /\ pattern = {}
    /\ fields = <<>>
    /\ queries = <<>>
    /\ records = <<>>
    /\ relation = <<>>
    /\ calls = <<>>
    /\ err = ""
    /\ results = <<>>

(***************************************************************************)
(* main: the subcommand builds its queries and calls run with its fields.  *)
(***************************************************************************)
TopSubcommand ==
    /\ pc = "main"
    /\ sub = "top"
    /\ queries' = TopQueries(args, opts.limit)
    /\ pc' = "run"
    /\ UNCHANGED <<opts, sub, args, access_log, consumed, eof, pattern, fields,
                   records, relation, calls, err, results>>

PrintSubcommand ==
    /\ pc = "main"
    /\ sub = "print"
    /\ queries' = PrintQueries(args)
    /\ pc' = "run"
    /\ UNCHANGED <<opts, sub, args, access_log, consumed, eof, pattern, fields,
                   records, relation, calls, err, results>>

(***************************************************************************)
(* run, step by step.  Every step that fails returns its error.            *)
(***************************************************************************)
TtyError == "STDIN is a TTY"
FollowError == "following log files is not currently implemented"

Fail(e) == pc' = "failed" /\ err' = e

SelectAccessLog ==
    /\ pc = "run"
    /\ \/ /\ opts.access_log.some
          /\ access_log' = opts.access_log.str
          /\ pc' = "input_source"
          /\ UNCHANGED err
       \/ /\ ~opts.access_log.some
          /\ \E tty \in BOOLEAN :
                IF tty
                THEN Fail(TtyError) /\ UNCHANGED access_log
                ELSE /\ access_log' = STDIN
                     /\ pc' = "input_source"
                     /\ UNCHANGED err
    /\ UNCHANGED <<opts, sub, args, consumed, eof, pattern, fields, queries,
                   records, relation, calls, results>>

\* Mutant: without no_follow the file is opened all the same.
InputSourceOpensAnyway ==
    /\ pc = "input_source"
    /\ IF access_log = STDIN
       THEN pc' = "format_to_pattern" /\ UNCHANGED err
       ELSE \E opened \in BOOLEAN :
                IF opened
                THEN pc' = "format_to_pattern" /\ UNCHANGED err
                ELSE Fail("open")
    /\ UNCHANGED <<opts, sub, args, access_log, consumed, eof, pattern, fields,
                   queries, records, relation, calls, results>>

InputSource ==
    /\ pc = "input_source"
    /\ IF access_log = STDIN
       THEN pc' = "format_to_pattern" /\ UNCHANGED err
       ELSE IF opts.no_follow
       THEN \E opened \in BOOLEAN :
                IF opened
                THEN pc' = "format_to_pattern" /\ UNCHANGED err
                ELSE Fail("open")
       ELSE Fail(FollowError)
    /\ UNCHANGED <<opts, sub, args, access_log, consumed, eof, pattern, fields,
                   queries, records, relation, calls, results>>

FormatToPattern ==
    /\ pc = "format_to_pattern"
    /\ LET r == FormatToPatternResult(opts.format)
       IN  IF r.ok
           THEN /\ pattern' = r.groups
                /\ pc' = "generate_processor"
                /\ UNCHANGED err
           ELSE Fail("format") /\ UNCHANGED pattern
    /\ UNCHANGED <<opts, sub, args, access_log, consumed, eof, fields, queries,
                   records, relation, calls, results>>

\* Mutant: the processor's error is not returned.
GenerateProcessorUnchecked ==
    /\ pc = "generate_processor"
    /\ fields' = args
    /\ pc' = "parse_input"
    /\ UNCHANGED err
    /\ UNCHANGED <<opts, sub, args, access_log, consumed, eof, pattern,
                   queries, records, relation, calls, results>>

GenerateProcessor ==
    /\ pc = "generate_processor"
    /\ LET r == GenerateProcessorResult(args, queries)
       IN  IF r.ok
           THEN /\ fields' = r.fields
                /\ pc' = "parse_input"
                /\ UNCHANGED err
           ELSE Fail("field") /\ UNCHANGED fields
    /\ UNCHANGED <<opts, sub, args, access_log, consumed, eof, pattern,
                   queries, records, relation, calls, results>>

(***************************************************************************)
(* parse_input: one turn of the loop over input.lines() for the line the   *)
(* input yields, then, at the end of the input, the call of process.       *)
(***************************************************************************)
\* Mutant: a line that does not match gives a record too.
ParseLineNoSkip(line) ==
    /\ pc = "parse_input"
    /\ ~eof
    /\ consumed' = Append(consumed, line)
    /\ \/ /\ line.kind = "io_error"
          /\ Fail("io")
          /\ UNCHANGED records
       \/ /\ line.kind \in {"no_match", "match"}
          /\ records' = Append(records, BuildRecord(line.caps, fields))
          /\ UNCHANGED <<pc, err>>
    /\ UNCHANGED <<opts, sub, args, access_log, eof, pattern, fields, queries,
                   relation, calls, results>>

ParseLine(line) ==
    /\ pc = "parse_input"
    /\ ~eof
    /\ consumed' = Append(consumed, line)
    /\ \/ /\ line.kind = "io_error"
          /\ Fail("io")
          /\ UNCHANGED records
       \/ /\ line.kind = "no_match"
          /\ UNCHANGED <<pc, err, records>>
       \/ /\ line.kind = "match"
          /\ records' = Append(records, BuildRecord(line.caps, fields))
          /\ UNCHANGED <<pc, err>>
    /\ UNCHANGED <<opts, sub, args, access_log, eof, pattern, fields, queries,
                   relation, calls, results>>

ParseInputLine ==
    /\ Len(consumed) < MaxLines
    /\ \E line \in Lines : ParseLine(line)

\* Mutant: report follows process whether or not process failed.
ProcessUnchecked ==
    /\ pc = "parse_input"
    /\ ~eof
    /\ eof' = TRUE
    /\ calls' = Append(calls, [op |-> "process", arg |-> records])
    /\ pc' = "report"
    /\ \E stored \in BOOLEAN :
          IF stored
          THEN relation' = relation \o records /\ UNCHANGED err
          ELSE err' = "store" /\ UNCHANGED relation
    /\ UNCHANGED <<opts, sub, args, access_log, consumed, pattern, fields,
                   queries, records, results>>

Process ==
    /\ pc = "parse_input"
    /\ ~eof
    /\ eof' = TRUE
    /\ calls' = Append(calls, [op |-> "process", arg |-> records])
    /\ \E stored \in BOOLEAN :
          IF stored
          THEN /\ relation' = relation \o records
               /\ pc' = "report"
               /\ UNCHANGED err
          ELSE Fail("store") /\ UNCHANGED relation
    /\ UNCHANGED <<opts, sub, args, access_log, consumed, pattern, fields,
                   queries, records, results>>

Report ==
    /\ pc = "report"
    /\ calls' = Append(calls, [op |-> "report", arg |-> <<>>])
    /\ \E answered \in BOOLEAN :
          IF answered /\ \A i \in 1..Len(queries) : QueryValid(queries[i], fields)
          THEN /\ results' = [i \in 1..Len(queries) |->
                                 ExecQuery(queries[i], relation)]
               /\ pc' = "done"
               /\ UNCHANGED err
          ELSE Fail("query") /\ UNCHANGED results
    /\ UNCHANGED <<opts, sub, args, access_log, consumed, eof, pattern, fields,
                   queries, records, relation>>

Next ==
    \/ TopSubcommand
    \/ PrintSubcommand
    \/ SelectAccessLog
    \/ InputSource
    \/ FormatToPattern
    \/ GenerateProcessor
    \/ ParseInputLine
    \/ Process
    \/ Report

Spec == Init /\ [][Next]_vars

(***************************************************************************)
(* The extraction of one line, for every text a capture can hold: the      *)
(* run is in parse_input, before its first line, with the pattern of a     *)
(* template and a list of fields; the input yields one line.               *)
(***************************************************************************)
TextAlphabet == {"0", "4", "6", "+", "a"}
ShortTexts == SeqsUpTo(TextAlphabet, MaxTextLen)
SampleTexts ==
    {<<"a", "b", "c">>,
     <<"-", "1">>,
     <<"1", "2", "3", "4">>,
     <<"6", "5", "5", "3", "5">>,
     <<"6", "5", "5", "3", "6">>,
     <<"9", "9", "9", "9", "9">>,
     <<"4", "2", "9", "4", "9", "6", "7", "2", "9", "5">>,
     <<"4", "2", "9", "4", "9", "6", "7", "2", "9", "6">>,
     <<"4", "2", "9", "4", "9", "6", "7", "3", "0", "0">>,
     <<"5", "0", "0", "0", "0", "0", "0", "0", "0", "0">>,
     <<"4", "2", "9", "4", "9", "6", "7", "2", "9", "5", "0">>,
     <<"0", "0", "0", "0", "0", "0", "0", "0", "0", "0", "1">>,
     <<"+", "4", "2", "9", "4", "9", "6", "7", "2", "9", "5">>,
     <<"1", "2", "a">>}
NumericTexts == ShortTexts \cup SampleTexts
OptionalTexts(S) == {None} \cup {Some(t) : t \in S}

PathTexts == {<<>>, <<"/", "a">>, <<"G", "E", "T", " ", "/", "b">>}
AddrTexts == {<<>>, <<"1", ".", "1">>}

ExtractTemplates ==
    {<<>>, <<"status">>, <<"body_bytes_sent">>, <<"request_uri">>,
     <<"request">>, <<"request_uri", "request">>, <<"remote_addr">>}

TextsOf(g) ==
    IF g \in {"status", "body_bytes_sent"} THEN NumericTexts
    ELSE IF g \in {"request_uri", "request"} THEN PathTexts
    ELSE AddrTexts

ExtractCaps(groups) ==
    [groups -> OptionalTexts(UNION {TextsOf(g) : g \in groups})]

ExtractLines(groups) ==
    {IoErrorLine, NoMatchLine} \cup {MatchLine(c) : c \in ExtractCaps(groups)}

ExtractFieldNames == {STATUS_TYPE, BYTES_SENT, REQUEST_PATH, "remote_addr", "status"}

InitExtract ==
    /\ pc = "parse_input"
    /\ \E vs \in ExtractTemplates :
          /\ opts = [access_log |-> Some(STDIN), format |-> Template(vs),
                     limit |-> 0, no_follow |-> FALSE]
          /\ pattern = FormatToPatternResult(Template(vs)).groups
    /\ sub = "print"
    /\ args \in SeqsUpTo(ExtractFieldNames, MaxFields)
    /\ access_log = STDIN
    /\ consumed = <<>>
    /\ eof = FALSE
    /\ fields = args
    /\ queries = PrintQueries(args)
    /\ records = <<>>
    /\ relation = <<>>
    /\ calls = <<>>
    /\ err = ""
    /\ results = <<>>

ExtractLine ==
    /\ consumed = <<>>
    /\ \E line \in ExtractLines(pattern) : ParseLine(line)

SpecExtract == InitExtract /\ [][ExtractLine]_vars

(***************************************************************************)
(* What the properties below speak of.                                     *)
(***************************************************************************)
IsMatch(line) == line.kind = "match"
MatchingLines(ls) == SelectSeq(ls, IsMatch)
RecordsOfLines(ls, fs) ==
    [k \in 1..Len(MatchingLines(ls)) |-> BuildRecord(MatchingLines(ls)[k].caps, fs)]

StartupErrors == {TtyError, "open", FollowError, "format", "field"}
Reading == pc \in {"parse_input", "report", "done"} \/ err \in {"io", "store", "query"}

\* The one line of the extraction specification, once parse_input took it,
\* its captures and the record built from them.
Extracted == consumed # <<>> /\ consumed[1].kind = "match"
TheCaps == consumed[1].caps
TheRecord == records[1]
Captured(g) == g \in DOMAIN TheCaps /\ TheCaps[g].some
CapturedText(g) == IF Captured(g) THEN TheCaps[g].str ELSE <<>>

\* A text read as a decimal number, independently of the parser: an optional
\* "+", then one digit or more; its digits without the leading zeros.
Unsigned(s) == IF s # <<>> /\ s[1] = "+" THEN Tail(s) ELSE s
IsDecimal(s) ==
    /\ Unsigned(s) # <<>>
    /\ \A i \in 1..Len(Unsigned(s)) : IsDigit(Unsigned(s)[i])
RECURSIVE Significant(_)
Significant(d) ==
    IF d # <<>> /\ d[1] = "0" THEN Significant(Tail(d)) ELSE d
RECURSIVE DecimalValue(_)
DecimalValue(d) ==
    IF d = <<>> THEN 0
    ELSE DecimalValue(SubSeq(d, 1, Len(d) - 1)) * 10 + DigitValue(d[Len(d)])
U32MaxText == <<"4", "2", "9", "4", "9", "6", "7", "2", "9", "5">>
DigitsExceed(d, m) ==
    \/ Len(d) > Len(m)
    \/ /\ Len(d) = Len(m)
       /\ \E i \in 1..Len(d) :
            /\ DigitValue(d[i]) > DigitValue(m[i])
            /\ \A j \in 1..(i - 1) : d[j] = m[j]

\* C1: parse_input builds one record per line that matches the pattern and
\* none for a line that does not: its records, the records handed to process
\* and the rows the processor then holds are, in input order, the records of
\* the matching lines only; a non-matching line raises no error (only a line
\* that cannot be read does).
C1_RecordsAreTheMatchingLines ==
    /\ Reading => records = RecordsOfLines(consumed, fields)
    /\ \A i \in 1..Len(calls) :
          calls[i].op = "process" => calls[i].arg = RecordsOfLines(consumed, fields)
    /\ pc \in {"report", "done"} => relation = RecordsOfLines(consumed, fields)
    /\ err = "io" <=> \E i \in 1..Len(consumed) : consumed[i].kind = "io_error"

C1_Witness ==
    /\ pc = "done"
    /\ \E i \in 1..Len(consumed) : consumed[i].kind = "no_match"
    /\ \E i \in 1..Len(consumed) : consumed[i].kind = "match"
    /\ fields # <<>>
    /\ Len(relation) >= 1
    /\ Len(relation) < Len(consumed)

\* C2: a fatal startup error (no input source, a format that is no pattern, a
\* rejected field) makes run return that error before any line is read and
\* before process or report is called; a run that read a line or called the
\* processor had a source, a pattern and accepted fields.
C2_StartupErrorsBeforeInput ==
    /\ err \in StartupErrors =>
          /\ pc = "failed"
          /\ consumed = <<>> /\ ~eof
          /\ calls = <<>>
          /\ records = <<>> /\ relation = <<>> /\ results = <<>>
    /\ (consumed # <<>> \/ calls # <<>>) =>
          /\ access_log = STDIN \/ opts.no_follow
          /\ FormatToPatternResult(opts.format).ok
          /\ GenerateProcessorResult(args, queries).ok

C2_Witness ==
    /\ pc = "failed"
    /\ err = "field"
    /\ access_log = "access.log"
    /\ consumed = <<>>

\* C3: process is called at most once, at the end of the input, with all the
\* records; report is called at most once and only after process succeeded;
\* when reading a line or process fails, report is never called.
C3_ProcessThenReport ==
    /\ Len(calls) <= 2
    /\ Len(calls) >= 1 =>
          /\ calls[1].op = "process"
          /\ eof
          /\ calls[1].arg = records
          /\ Len(records) = Len(MatchingLines(consumed))
    /\ Len(calls) = 2 =>
          /\ calls[2].op = "report"
          /\ err \notin {"io", "store"}
          /\ relation = calls[1].arg
    /\ err = "io" => calls = <<>>
    /\ err = "store" => Len(calls) = 1
    /\ ~eof => calls = <<>>

C3_Witness ==
    /\ pc = "done"
    /\ Len(calls) = 2
    /\ Len(consumed) >= 2
    /\ Len(relation) >= 2

\* The values a column holds in the relation and how often each occurs.
ColumnValues(f) == {Column(relation[r], f) : r \in 1..Len(relation)}
Occurrences(f, v) ==
    Cardinality({r \in 1..Len(relation) : Column(relation[r], f) = v})
Smaller(a, b) == IF a < b THEN a ELSE b

\* C9: top issues one query per requested field, in field order, each on its
\* field alone: it selects the field and the row count, groups by the field,
\* orders by count descending and keeps at most opts.limit rows; its reported
\* result is the limit most frequent distinct values of the field, each with
\* the number of rows that hold it, most frequent first.
C9_TopQueriesPerField ==
    (sub = "top" /\ pc # "main") =>
        /\ Len(queries) = Len(args)
        /\ \A i \in 1..Len(args) :
              /\ queries[i].select = <<args[i], CountColumn>>
              /\ queries[i].group_by = <<args[i]>>
              /\ queries[i].order_by = "COUNT DESC"
              /\ queries[i].limit = opts.limit
        /\ pc = "done" =>
              /\ Len(results) = Len(args)
              /\ \A i \in 1..Len(args) :
                    LET res == results[i]
                        f == args[i]
                    IN  /\ Len(res) = Smaller(opts.limit, Cardinality(ColumnValues(f)))
                        /\ \A k \in 1..Len(res) :
                              /\ res[k][1] \in ColumnValues(f)
                              /\ res[k][2] = Occurrences(f, res[k][1])
                        /\ \A k, l \in 1..Len(res) :
                              /\ k # l => res[k][1] # res[l][1]
                              /\ k < l => res[k][2] >= res[l][2]
                        /\ \A v \in ColumnValues(f) :
                              \/ \E k \in 1..Len(res) : res[k][1] = v
                              \/ \A k \in 1..Len(res) : res[k][2] >= Occurrences(f, v)

C9_Witness ==
    /\ sub = "top"
    /\ pc = "done"
    /\ Len(args) = 2
    /\ args[1] # args[2]
    /\ opts.limit = 1
    /\ \E i \in 1..Len(args) :
          /\ Cardinality(ColumnValues(args[i])) = 2
          /\ Len(results[i]) = 1
          /\ results[i][1][2] = 2

\* C10 as stated: whenever a run has an input source and no_follow is not set,
\* the run is rejected with the "not implemented" error and no line is read,
\* nothing is inserted and nothing reported; a run reads input and reports
\* only when following was disabled.
C10_FollowAlwaysRejected ==
    /\ (~opts.no_follow /\ access_log # "" /\ pc # "input_source") =>
          /\ pc = "failed" /\ err = FollowError
          /\ consumed = <<>> /\ calls = <<>> /\ relation = <<>> /\ results = <<>>
    /\ (consumed # <<>> \/ calls # <<>>) => opts.no_follow

\* C10, amended: follow mode is rejected for a log file only.  Whenever a run
\* has a source other than STDIN and no_follow is not set, the run is rejected
\* with the "not implemented" error and no line is read, nothing is inserted
\* and nothing reported; a run reads input and reports only when following
\* was disabled or its source is STDIN.
C10_FollowRejectedForFiles ==
    /\ (~opts.no_follow /\ access_log \notin {"", STDIN} /\ pc # "input_source") =>
          /\ pc = "failed" /\ err = FollowError
          /\ consumed = <<>> /\ calls = <<>> /\ relation = <<>> /\ results = <<>>
    /\ err = FollowError => ~opts.no_follow /\ access_log \notin {"", STDIN}
    /\ (consumed # <<>> \/ calls # <<>>) => (opts.no_follow \/ access_log = STDIN)

C10_Witness ==
    /\ ~opts.no_follow
    /\ access_log = "access.log"
    /\ pc = "failed"
    /\ err = FollowError

\* The entries of the record for one field.
EntriesOf(f) == {k \in 1..Len(fields) : fields[k] = f}
StatusText == CapturedText("status")
BytesText == CapturedText("body_bytes_sent")

\* C4: for a matched line, request_path is the request_uri capture whenever
\* that capture is present, even when it matched the empty text; it is the
\* request capture, verbatim, only when request_uri is absent; it is the
\* empty text when neither capture exists.
C4_RequestPathPrefersUri ==
    Extracted =>
        \A k \in EntriesOf(REQUEST_PATH) :
            /\ TheRecord[k][2].type = "text"
            /\ Captured("request_uri") =>
                  TheRecord[k][2].s = TheCaps["request_uri"].str
            /\ (~Captured("request_uri") /\ Captured("request")) =>
                  TheRecord[k][2].s = TheCaps["request"].str
            /\ (~Captured("request_uri") /\ ~Captured("request")) =>
                  TheRecord[k][2].s = <<>>

C4_Witness ==
    /\ Extracted
    /\ EntriesOf(REQUEST_PATH) # {}
    /\ Captured("request_uri") /\ TheCaps["request_uri"].str = <<>>
    /\ Captured("request") /\ TheCaps["request"].str # <<>>
    /\ \A k \in EntriesOf(REQUEST_PATH) : TheRecord[k][2].s = <<>>

\* C5: for a matched line, status_type is the status capture read as an
\* unsigned (16-bit) decimal number and divided by 100, rounding down, and 0
\* when the capture is missing, empty, not a number or out of range:
\* "404" gives 4, "" and "abc" give 0.
C5_StatusTypeIsStatusOver100 ==
    Extracted =>
        \A k \in EntriesOf(STATUS_TYPE) :
            /\ TheRecord[k][2].type = "u16"
            /\ TheRecord[k][2].n =
                  IF /\ IsDecimal(StatusText)
                     /\ ~DigitsExceed(Significant(Unsigned(StatusText)),
                                      <<"6", "5", "5", "3", "5">>)
                  THEN DecimalValue(Significant(Unsigned(StatusText))) \div 100
                  ELSE 0
            /\ StatusText = <<"4", "0", "4">> => TheRecord[k][2].n = 4
            /\ StatusText \in {<<>>, <<"a", "b", "c">>} => TheRecord[k][2].n = 0

C5_Witness ==
    /\ Extracted
    /\ EntriesOf(STATUS_TYPE) # {}
    /\ Captured("status")
    /\ StatusText = <<"4", "0", "4">>
    /\ \A k \in EntriesOf(STATUS_TYPE) : TheRecord[k][2].n = 4

\* C6 as stated: status_type is always an HTTP status class, a value in 1..5,
\* or 0.
C6_StatusTypeIsAClass ==
    Extracted => \A k \in EntriesOf(STATUS_TYPE) : TheRecord[k][2].n \in 0..5

\* C6, amended: status_type is a value in 0..655; it is a status class in
\* 1..5 exactly when the status capture reads as a number in 100..599, and 0
\* when the capture is missing, not a number or above 65535.
C6_StatusTypeRange ==
    Extracted =>
        \A k \in EntriesOf(STATUS_TYPE) :
            /\ TheRecord[k][2].n \in 0..655
            /\ TheRecord[k][2].n \in 1..5 <=>
                  /\ IsDecimal(StatusText)
                  /\ Len(Significant(Unsigned(StatusText))) = 3
                  /\ DecimalValue(Significant(Unsigned(StatusText))) \in 100..599
            /\ (~Captured("status") \/ ~IsDecimal(StatusText)
                  \/ DigitsExceed(Significant(Unsigned(StatusText)),
                                  <<"6", "5", "5", "3", "5">>)) =>
                  TheRecord[k][2].n = 0

C6_Witness ==
    /\ Extracted
    /\ EntriesOf(STATUS_TYPE) # {}
    /\ StatusText = <<"6", "5", "5", "3", "5">>
    /\ \A k \in EntriesOf(STATUS_TYPE) : TheRecord[k][2].n = 655

\* The value hi * 65536 + lo of a u32, as its hundreds and its last two
\* decimal digits: hi * 65536 + lo = (hi * 655) * 100 + (hi * 36 + lo).
Hundreds(v) == v.hi * 655 + ((v.hi * 36 + v.lo) \div 100)
LastTwo(v) == (v.hi * 36 + v.lo) % 100
TextHundreds(d) ==
    IF Len(d) <= 2 THEN 0 ELSE DecimalValue(SubSeq(d, 1, Len(d) - 2))
TextLastTwo(d) ==
    IF Len(d) <= 2 THEN DecimalValue(d) ELSE DecimalValue(SubSeq(d, Len(d) - 1, Len(d)))

\* C7: for a matched line, bytes_sent is the body_bytes_sent capture read as
\* an unsigned 32-bit decimal number, and 0 when the capture is absent, empty,
\* negative ("-1"), not a number or above 2^32 - 1; it is always in
\* 0..2^32 - 1.
C7_BytesSentIsU32OrZero ==
    Extracted =>
        \A k \in EntriesOf(BYTES_SENT) :
            LET v == TheRecord[k][2]
                d == Significant(Unsigned(BytesText))
            IN  /\ v.type = "u32"
                /\ v.hi \in 0..65535 /\ v.lo \in 0..65535
                /\ IF IsDecimal(BytesText) /\ ~DigitsExceed(d, U32MaxText)
                   THEN Hundreds(v) = TextHundreds(d) /\ LastTwo(v) = TextLastTwo(d)
                   ELSE v.hi = 0 /\ v.lo = 0
                /\ BytesText = <<"1", "2", "3", "4">> => (v.hi = 0 /\ v.lo = 1234)
                /\ BytesText \in {<<>>, <<"-", "1">>} => (v.hi = 0 /\ v.lo = 0)

C7_Witness ==
    /\ Extracted
    /\ EntriesOf(BYTES_SENT) # {}
    /\ BytesText = U32MaxText
    /\ \A k \in EntriesOf(BYTES_SENT) :
          TheRecord[k][2].hi = 65535 /\ TheRecord[k][2].lo = 65535

\* C8: for a matched line and any list of fields, extraction does not fail
\* and the record has one entry per field, in the order of the field list,
\* each keyed ":<field>"; a field other than status_type, bytes_sent and
\* request_path holds the text of the capture of its name, or the empty text
\* when the pattern has no such capture or the capture did not match.
C8_OneEntryPerField ==
    Extracted =>
        /\ err = "" /\ pc = "parse_input"
        /\ Len(records) = 1
        /\ Len(TheRecord) = Len(fields)
        /\ \A k \in 1..Len(fields) :
              /\ TheRecord[k][1] = ":" \o fields[k]
              /\ fields[k] \notin {STATUS_TYPE, BYTES_SENT, REQUEST_PATH} =>
                    /\ TheRecord[k][2].type = "text"
                    /\ TheRecord[k][2].s = CapturedText(fields[k])

C8_Witness ==
    /\ Extracted
    /\ Len(fields) = 2
    /\ fields[1] = "remote_addr" /\ fields[2] = STATUS_TYPE
    /\ Captured("remote_addr") /\ TheCaps["remote_addr"].str # <<>>
    /\ TheRecord[1][2].s = TheCaps["remote_addr"].str

====
